---- MODULE Spec2Model ----
(***************************************************************************)
(* Model of simulator.py: SimulationConfig, Attribute, simulate,           *)
(* _generate_fields_from_configs and _simulate_field, together with the    *)
(* pandas operations they use (insert, copy, iterrows, .at, concat).       *)
(*                                                                         *)
(* Encoding of Python values                                               *)
(*   str            a sequence of tokens, '' is << >>, ',a' is <<",","a">> *)
(*   column name    a TLA+ string; NonStrCol stands for a non-str object   *)
(*   float          [kind |-> "float", num |-> n], n counted in 1/One      *)
(*   float('nan')   [kind |-> "nan", ...], a str [kind |-> "str", ...]     *)
(*   callable       the name of a generator; NotCallable is not callable   *)
(*   DataFrame      [columns, index, rows], rows[k] maps column to cell    *)
(***************************************************************************)
EXTENDS Integers, Sequences, FiniteSets

VARIABLES configs, df, before, output_df, fields, pc, fi, ri,
          tracking_col, union, result, trials, calls, fired, ctor, setattrs

vars == <<configs, df, before, output_df, fields, pc, fi, ri,
          tracking_col, union, result, trials, calls, fired, ctor, setattrs>>

(* ------------------------------ bounds --------------------------------- *)
MaxRows == 2
MaxRules == 2
MaxSetAttr == 1

(* ------------------------------ values --------------------------------- *)
\* the float 1.0 counted in the model's unit (likelihoods and draws are k/One)
One == 2

Float(n) == [kind |-> "float", num |-> n]
NaN == [kind |-> "nan", num |-> 0]
StrLik == [kind |-> "str", num |-> 0]

NonStrCol == "<int 5>"
NotCallable == "<None>"

\* isinstance(x, str)
IsStr(c) == c # NonStrCol
\* callable(x)
Callable(g) == g # NotCallable
\* isinstance(x, float): true of nan too
IsFloat(l) == l.kind \in {"float", "nan"}
\* x < y on floats: every comparison with nan is False
NumLt(x, y) == x.kind = "float" /\ y.kind = "float" /\ x.num < y.num

\* a generator whose range includes 1.0
DrawsClosed == {Float(n) : n \in 0 .. One}

\* random(): a float in [0.0, 1.0)
Draws == {Float(n) : n \in 0 .. (One - 1)}

\* Attribute.generate: the value the generator produces, a str
GenOut(g) == IF g = "g1" THEN <<"x1">> ELSE <<"x2">>

\* the value pandas fills a new column's other rows with
NaNCell == <<"<NaN>">>

(* -------------------------- SimulationConfig --------------------------- *)
LikelihoodRejected(l) == ~IsFloat(l) \/ NumLt(l, Float(0)) \/ NumLt(Float(One), l)

\* __init__: the checks in order; raised, or the object with its attributes
SimulationConfig(col, generator, likelihood) ==
    IF ~IsStr(col) THEN [raised |-> TRUE, msg |-> "col"]
    ELSE IF ~Callable(generator) THEN [raised |-> TRUE, msg |-> "generator"]
    ELSE IF LikelihoodRejected(likelihood) THEN [raised |-> TRUE, msg |-> "likelihood"]
    ELSE [raised |-> FALSE, msg |-> "",
          obj |-> [col |-> col, generator |-> generator, likelihood |-> likelihood]]

\* Attribute(name, generator, likelihood): no checks
Attribute(name, generator, likelihood) ==
    [name |-> name, generator |-> generator, likelihood |-> likelihood]

RECURSIVE GenerateFields(_)
\* _generate_fields_from_configs
GenerateFields(cs) ==
    IF cs = << >> THEN << >>
    ELSE <<Attribute(Head(cs).col, Head(cs).generator, Head(cs).likelihood)>>
         \o GenerateFields(Tail(cs))

(* ------------------------------ pandas --------------------------------- *)
Range(s) == {s[k] : k \in DOMAIN s}

NoTable == [columns |-> << >>, index |-> << >>, rows |-> << >>]

NRows(t) == Len(t.index)

\* df.insert(len(df.columns), col, value): a new last column, value in every row
Insert(t, col, value) ==
    [columns |-> Append(t.columns, col),
     index |-> t.index,
     rows |-> [k \in DOMAIN t.rows |->
                 [c \in (DOMAIN t.rows[k]) \cup {col} |->
                    IF c = col THEN value ELSE t.rows[k][c]]]]

\* the rows .at[label, ...] addresses: the row of that label, or, on an index
\* that is not unique, every row .loc[label] selects
RowsAt(t, label) == {k \in DOMAIN t.index : t.index[k] = label}

\* df.at[label, col] = value; a column that does not exist is added, NaN elsewhere
AtSet(t, label, col, value) ==
    [columns |-> IF col \in Range(t.columns) THEN t.columns ELSE Append(t.columns, col),
     index |-> t.index,
     rows |-> [k \in DOMAIN t.rows |->
                 [c \in (DOMAIN t.rows[k]) \cup {col} |->
                    IF c = col
                    THEN IF k \in RowsAt(t, label) THEN value
                         ELSE IF col \in DOMAIN t.rows[k] THEN t.rows[k][col]
                         ELSE NaNCell
                    ELSE t.rows[k][c]]]]

\* df.at[label, col] += suffix: read (a scalar, or the Series of the rows of that
\* label), concatenate, write back
AtIAdd(t, label, col, suffix) ==
    [t EXCEPT !.rows = [k \in DOMAIN t.rows |->
        IF k \in RowsAt(t, label)
        THEN [t.rows[k] EXCEPT ![col] = @ \o suffix]
        ELSE t.rows[k]]]

\* a return that drops the original rows
ConcatSecondOnly(a, b) == b

\* pd.concat([a, b], axis=0): a's rows then b's, over the union of the columns
ConcatColumns(a, b) ==
    a.columns \o SelectSeq(b.columns, LAMBDA c : c \notin Range(a.columns))

Reindexed(row, cols) ==
    [c \in cols |-> IF c \in DOMAIN row THEN row[c] ELSE NaNCell]

Concat(a, b) ==
    LET cols == Range(ConcatColumns(a, b))
    IN [columns |-> ConcatColumns(a, b),
        index |-> a.index \o b.index,
        rows |-> [k \in 1 .. (NRows(a) + NRows(b)) |->
                    IF k <= NRows(a) THEN Reindexed(a.rows[k], cols)
                    ELSE Reindexed(b.rows[k - NRows(a)], cols)]]

(* --------------------------- caller's inputs --------------------------- *)
RowTok == <<"r1", "r2", "r3", "r4">>

\* a table of n rows with data columns a and b, or b alone; the index is 0..n-1,
\* or the label 0 on every row; the audit column is absent, or present with an
\* earlier run's trail
MakeTable(n, dupIndex, hasAudit, hasA) ==
    LET cols == (IF hasA THEN <<"a">> ELSE << >>) \o <<"b">>
                \o (IF hasAudit THEN <<"events">> ELSE << >>)
    IN [columns |-> cols,
        index |-> [k \in 1 .. n |-> IF dupIndex THEN 0 ELSE k - 1],
        rows |-> [k \in 1 .. n |->
                    [c \in Range(cols) |->
                       IF c = "events" THEN <<",", "old">> ELSE <<c, RowTok[k]>>]]]

\* the caller's tables: a fresh table with or without the audit column, a table
\* whose rows share a label (what simulate returns with union=True, so with the
\* audit column), and a one-row table without column a
Tables ==
    {MakeTable(n, FALSE, h, TRUE) : n \in 0 .. MaxRows, h \in BOOLEAN}
    \cup {MakeTable(n, TRUE, TRUE, TRUE) : n \in 2 .. MaxRows}
    \cup {MakeTable(1, FALSE, FALSE, FALSE)}

TrackingCols == {"", "events"}

\* arguments SimulationConfig is called with
CtorCols == {"a", "events", "", NonStrCol}
CtorGens == {"g1", "g2", NotCallable}
CtorLiks == {Float(0 - 1), Float(0), Float(1), Float(One), Float(One + 1), NaN, StrLik}

\* the rules the sweeps are run on
RuleCols == {"a", "events"}
RuleGens == {"g1", "g2", NotCallable}
RuleLiks == {Float(0), Float(1), Float(One), Float(One + 1)}

NoCtor == [called |-> FALSE, col |-> "", generator |-> NotCallable,
           likelihood |-> StrLik, raised |-> FALSE]

(* ------------------------------- state --------------------------------- *)
Init ==
    /\ configs = << >>
    /\ df \in Tables
    /\ before = df
    /\ output_df = NoTable
    /\ fields = << >>
    /\ pc = "idle"
    /\ fi = 0
    /\ ri = 0
    /\ tracking_col = "events"
    /\ union = FALSE
    /\ result = NoTable
    /\ trials = << >>
    /\ calls = << >>
    /\ fired = {}
    /\ ctor = NoCtor
    /\ setattrs = 0

simVars == <<df, before, output_df, fields, pc, fi, ri, tracking_col, union,
             result, trials, calls, fired>>

\* SimulationConfig(col, generator, likelihood), the object put on the caller's list
ConstructBody(col, generator, likelihood) ==
    /\ pc = "idle"
    /\ Len(configs) < MaxRules
    /\ LET made == SimulationConfig(col, generator, likelihood)
       IN configs' = IF made.raised THEN configs ELSE Append(configs, made.obj)
    /\ UNCHANGED <<simVars, setattrs>>

Construct(col, generator, likelihood) ==
    /\ ConstructBody(col, generator, likelihood)
    /\ UNCHANGED ctor

\* the same call, with its arguments and outcome kept
ConstructLogged(col, generator, likelihood) ==
    /\ ConstructBody(col, generator, likelihood)
    /\ ctor' = [called |-> TRUE, col |-> col, generator |-> generator,
                likelihood |-> likelihood,
                raised |-> SimulationConfig(col, generator, likelihood).raised]

\* an assignment to an attribute of a constructed SimulationConfig
SetAttr(k, attr, value) ==
    /\ pc = "idle"
    /\ setattrs < MaxSetAttr
    /\ k \in DOMAIN configs
    /\ configs' = [configs EXCEPT ![k] = [@ EXCEPT ![attr] = value]]
    /\ setattrs' = setattrs + 1
    /\ UNCHANGED <<simVars, ctor>>

\* the entry check left out
TrackingColEmptyNever(tc) == FALSE

\* tracking_col == ''
TrackingColEmpty(tc) == tc = ""

\* simulate, from its entry to the first sweep
Enter(tc) ==
    /\ pc = "idle"
    /\ tracking_col' = tc
    /\ IF TrackingColEmpty(tc)
       THEN /\ pc' = "raised"
            /\ UNCHANGED <<df, output_df, fields, fi, ri, trials, calls>>
       ELSE /\ df' = IF tc \notin Range(df.columns) THEN Insert(df, tc, << >>) ELSE df
            /\ output_df' = df'
            /\ fields' = GenerateFields(configs)
            /\ fi' = 1
            /\ ri' = 1
            /\ trials' = [f \in DOMAIN configs |-> [r \in DOMAIN df.rows |-> 0]]
            /\ calls' = [f \in DOMAIN configs |-> 0]
            /\ pc' = "sweep"
    /\ UNCHANGED <<configs, before, union, result, fired, ctor, setattrs>>

\* the comparison written <=
FiresOrEqual(draw, likelihood) ==
    NumLt(draw, likelihood) \/ (draw.kind = "float" /\ draw = likelihood)

\* random() < field.likelihood
Fires(draw, likelihood) == NumLt(draw, likelihood)

\* generate() called ahead of the trial
GenerateCallsHoisted(fires) == 1

\* how often one pass of the loop body calls field.generate(): inside the if
GenerateCalls(fires) == IF fires THEN 1 ELSE 0

SweepDone == fi > Len(fields) \/ NRows(output_df) = 0

\* one pass of the loop body of _simulate_field, for row ri of field fi
Step(draw) ==
    /\ pc = "sweep"
    /\ ~SweepDone
    /\ LET field == fields[fi]
           label == output_df.index[ri]
           written == AtSet(output_df, label, field.name, GenOut(field.generator))
       IN /\ trials' = [trials EXCEPT ![fi][ri] = @ + 1]
          /\ IF field.likelihood.kind = "str"
             THEN \* TypeError: float < str
                  /\ pc' = "raised"
                  /\ UNCHANGED <<output_df, calls, fired, fi, ri>>
             ELSE IF ~Fires(draw, field.likelihood)
             THEN /\ pc' = "sweep"
                  /\ calls' = [calls EXCEPT ![fi] = @ + GenerateCalls(FALSE)]
                  /\ UNCHANGED <<output_df, fired>>
                  /\ ri' = IF ri < NRows(output_df) THEN ri + 1 ELSE 1
                  /\ fi' = IF ri < NRows(output_df) THEN fi ELSE fi + 1
             ELSE IF ~Callable(field.generator)
             THEN \* TypeError: object is not callable
                  /\ pc' = "raised"
                  /\ fired' = fired \cup {<<fi, ri>>}
                  /\ UNCHANGED <<output_df, calls, fi, ri>>
             ELSE IF ~IsStr(field.name)
             THEN \* TypeError: ',' + field.name, after the cell was written
                  /\ pc' = "raised"
                  /\ output_df' = written
                  /\ calls' = [calls EXCEPT ![fi] = @ + GenerateCalls(TRUE)]
                  /\ fired' = fired \cup {<<fi, ri>>}
                  /\ UNCHANGED <<fi, ri>>
             ELSE /\ pc' = "sweep"
                  /\ output_df' = AtIAdd(written, label, tracking_col, <<",", field.name>>)
                  /\ calls' = [calls EXCEPT ![fi] = @ + GenerateCalls(TRUE)]
                  /\ fired' = fired \cup {<<fi, ri>>}
                  /\ ri' = IF ri < NRows(output_df) THEN ri + 1 ELSE 1
                  /\ fi' = IF ri < NRows(output_df) THEN fi ELSE fi + 1
    /\ UNCHANGED <<configs, df, before, fields, tracking_col, union, result, ctor, setattrs>>

\* simulate's return; the argument union is first read here
Return(u) ==
    /\ pc = "sweep"
    /\ SweepDone
    /\ union' = u
    /\ result' = IF u THEN Concat(df, output_df) ELSE output_df
    /\ pc' = "returned"
    /\ UNCHANGED <<configs, df, before, output_df, fields, fi, ri, tracking_col,
                   trials, calls, fired, ctor, setattrs>>

Simulate ==
    \/ \E tc \in TrackingCols : Enter(tc)
    \/ \E d \in Draws : Step(d)
    \/ \E u \in BOOLEAN : Return(u)

Next ==
    \/ \E c \in RuleCols, g \in RuleGens, l \in RuleLiks : Construct(c, g, l)
    \/ Simulate

Spec == Init /\ [][Next]_vars

NextCtor ==
    \E c \in CtorCols, g \in CtorGens, l \in CtorLiks : ConstructLogged(c, g, l)

InitCtor == Init /\ df = MakeTable(0, FALSE, FALSE, TRUE)

SpecCtor == InitCtor /\ [][NextCtor]_vars

NextMutable ==
    \/ Next
    \/ \E k \in 1 .. MaxRules :
         \/ SetAttr(k, "col", NonStrCol)
         \/ SetAttr(k, "generator", NotCallable)
         \/ \E l \in {StrLik, Float(One + 1)} : SetAttr(k, "likelihood", l)

SpecMutable == Init /\ [][NextMutable]_vars

(* ------------------------------ claims --------------------------------- *)
\* C1: after simulate, the table the caller passed in has the columns and the
\* cell values it had before the call.
C1_CallerTableUnchanged == pc \in {"returned", "raised"} => df = before

\* C2: a call with tracking_col = '' raises on entry: no field is generated, no
\* trial is made, no generator is called, and the caller's table equals its
\* pre-call copy.
C2_EmptyTrackingColRaisesOnEntry ==
    tracking_col = "" =>
        /\ pc = "raised"
        /\ df = before
        /\ output_df = NoTable
        /\ fields = << >>
        /\ trials = << >>
        /\ calls = << >>
        /\ fired = {}
        /\ result = NoTable

C2_Witness ==
    /\ tracking_col = ""
    /\ pc = "raised"
    /\ Len(configs) = MaxRules
    /\ NRows(df) > 0
    /\ "events" \notin Range(df.columns)

RuleInvariant(col, generator, likelihood) ==
    /\ IsStr(col)
    /\ col # ""
    /\ Callable(generator)
    /\ likelihood.kind = "float"
    /\ 0 <= likelihood.num
    /\ likelihood.num <= One

\* C3: SimulationConfig raises when the column is no string, the generator is
\* not callable, or the likelihood is not numeric or outside [0,1]; and every
\* rule it accepts has a non-empty string column, a callable generator and a
\* likelihood in [0,1].
C3_AcceptedRuleMeetsInvariant ==
    ctor.called =>
        /\ (\/ ~IsStr(ctor.col)
            \/ ~Callable(ctor.generator)
            \/ ctor.likelihood.kind = "str"
            \/ (ctor.likelihood.kind = "float"
                /\ (ctor.likelihood.num < 0 \/ ctor.likelihood.num > One)))
           => ctor.raised
        /\ ~ctor.raised => RuleInvariant(ctor.col, ctor.generator, ctor.likelihood)

\* C4: no rule-related failure happens once the audit column is added or a cell
\* of the working copy is overwritten: a simulate that raises after its entry
\* check has changed neither the caller's table nor the working copy.
C4_NoFailureAfterMutation ==
    (pc = "raised" /\ tracking_col # "") => (df = before /\ output_df = df)

\* the audit cell holds ',' + name
HasName(cell, name) ==
    \E p \in 1 .. (Len(cell) - 1) : cell[p] = "," /\ cell[p + 1] = name

FullLikelihood(f) == fields[f].likelihood = Float(One)

OverwrittenAndAudited(f) ==
    \A k \in DOMAIN output_df.rows :
        /\ fields[f].name \in DOMAIN output_df.rows[k]
        /\ output_df.rows[k][fields[f].name] = GenOut(fields[f].generator)
        /\ HasName(output_df.rows[k][tracking_col], fields[f].name)

\* C5 as stated: after simulate, for every rule with likelihood 1.0, every row's
\* cell in the rule's column holds an output of the rule's generator and the
\* row's audit cell contains the rule's column name.
C5_FullLikelihoodOverwritesEveryRow ==
    pc = "returned" =>
        \A f \in DOMAIN fields : FullLikelihood(f) => OverwrittenAndAudited(f)

\* C5 amended: the same, for a rule whose column no later rule of the list
\* targets, in a list none of whose rules targets the audit column.
C5_LastWriterFullLikelihood ==
    pc = "returned" =>
        \A f \in DOMAIN fields :
            (/\ FullLikelihood(f)
             /\ \A g \in DOMAIN fields : fields[g].name # tracking_col
             /\ \A g \in DOMAIN fields : g > f => fields[g].name # fields[f].name)
            => OverwrittenAndAudited(f)

C5_Witness ==
    /\ pc = "returned"
    /\ NRows(output_df) = MaxRows
    /\ Len(fields) = MaxRules
    /\ FullLikelihood(Len(fields))
    /\ fields[1].name = fields[Len(fields)].name
    /\ fields[1].generator # fields[Len(fields)].generator
    /\ fields[Len(fields)].name # tracking_col
    /\ OverwrittenAndAudited(Len(fields))

\* C6: sweeping a row with a rule of likelihood 0.0 changes no cell of the
\* working copy (so neither the rule's column nor the audit column), and calls
\* no generator, whatever the draw.
C6_ZeroLikelihoodChangesNothing ==
    [][(pc = "sweep" /\ ~SweepDone /\ fields[fi].likelihood = Float(0))
       => (output_df' = output_df /\ calls' = calls /\ fired' = fired)]_vars

C6_Witness ==
    /\ pc = "returned"
    /\ NRows(output_df) = MaxRows
    /\ \E f \in DOMAIN fields : fields[f].likelihood = Float(0) /\ calls[f] = 0
    /\ \E f \in DOMAIN fields : fields[f].likelihood # Float(0) /\ calls[f] > 0

RECURSIVE Trail(_, _)
\* ',' + name of every rule 1..f that fired on row k, in rule order
Trail(f, k) ==
    IF f = 0 THEN << >>
    ELSE Trail(f - 1, k)
         \o (IF <<f, k>> \in fired THEN <<",", fields[f].name>> ELSE << >>)

InitialAudit(k) ==
    IF tracking_col \in DOMAIN before.rows[k] THEN before.rows[k][tracking_col]
    ELSE << >>

\* C8: after simulate each row's audit cell is its initial value followed by
\* ',' + column name of each rule that fired on that row, in rule-list order
\* (stated here for rule lists that do not write the audit column itself).
C8_AuditIsTrailOfFiredRules ==
    (pc = "returned" /\ \A g \in DOMAIN fields : fields[g].name # tracking_col) =>
        \A k \in DOMAIN output_df.rows :
            output_df.rows[k][tracking_col] = InitialAudit(k) \o Trail(Len(fields), k)

\* the pair (f, r) lies before the loops' position
Passed(f, r) == f < fi \/ (f = fi /\ r < ri)

\* C9: each (row, rule) pair gets one trial, made when the sweep reaches it;
\* a rule's generator has been called once for each pair whose trial succeeded
\* and not otherwise; when simulate returns every pair has had its one trial.
C9_OneTrialOneCallPerFiring ==
    pc \in {"sweep", "returned"} =>
        /\ \A f \in DOMAIN fields : \A r \in DOMAIN output_df.rows :
             /\ trials[f][r] = (IF Passed(f, r) THEN 1 ELSE 0)
             /\ <<f, r>> \in fired => Passed(f, r)
             /\ pc = "returned" => trials[f][r] = 1
        /\ \A f \in DOMAIN fields :
             calls[f] = Cardinality({r \in DOMAIN output_df.rows : <<f, r>> \in fired})

C9_Witness ==
    /\ pc = "returned"
    /\ NRows(output_df) = MaxRows
    /\ Len(fields) = MaxRules
    /\ \E f \in DOMAIN fields : calls[f] = 1
    /\ \E f \in DOMAIN fields : calls[f] = MaxRows

\* C10: a row on which no rule fired has, in the mutated copy, its original
\* column values and its original audit value.
C10_UnfiredRowKeepsItsValues ==
    pc = "returned" =>
        \A k \in DOMAIN output_df.rows :
            (\A f \in DOMAIN fields : <<f, k>> \notin fired) =>
                \A c \in DOMAIN df.rows[k] : output_df.rows[k][c] = df.rows[k][c]

====
